---- MODULE Spec2Model ----
(***************************************************************************)
(* State-machine model of the MCP23017 high level analyzer                 *)
(* (src/MCP23017.py): the I2C frame reassembler ll_fsm and the register    *)
(* decoder decode, with the per-chip IOCON.BANK table.                     *)
(***************************************************************************)
EXTENDS Integers, Sequences, FiniteSets, TLC

\* ------------------------------------------------------------ constants

START_ADDRESS == 32

N_ADDRESSES == 8

\* Python's None for the integer-valued attributes address and start_time.
None == -1

\* IOCON_BITS, in the dictionary's insertion order (the order decode iterates).
IOCON_KEYS == <<"INTPOL", "ODR", "HAEN", "DISSLW", "SEQOP", "MIRROW", "BANK">>

\* Variant of IOCON_BITS with the positions of ODR and HAEN exchanged.
IOCON_BITS_OdrHaenSwapped ==
    [INTPOL |-> 1, ODR |-> 3, HAEN |-> 2, DISSLW |-> 4, SEQOP |-> 5,
     MIRROW |-> 6, BANK |-> 7]

IOCON_BITS ==
    [INTPOL |-> 1, ODR |-> 2, HAEN |-> 3, DISSLW |-> 4, SEQOP |-> 5,
     MIRROW |-> 6, BANK |-> 7]

\* Variant of iocon_bit_test that tests the bit below the named one.
iocon_bit_test_BitBelow(reg, string) ==
    ((reg \div (2 ^ (IOCON_BITS[string] - 1))) % 2) # 0

iocon_bit_test(reg, string) == ((reg \div (2 ^ IOCON_BITS[string])) % 2) # 0

MAP ==
    0 :> (  0 :> "IODIRA"   @@  1 :> "IODIRB"   @@  2 :> "IPOLA"
         @@ 3 :> "IPOLB"    @@  4 :> "GPINTENA" @@  5 :> "GPINTENB"
         @@ 6 :> "DEFVALA"  @@  7 :> "DEFVALB"  @@  8 :> "INTCONA"
         @@ 9 :> "INTCONB"  @@ 10 :> "IOCON"    @@ 11 :> "IOCON"
         @@ 12 :> "GPPUA"   @@ 13 :> "GPPUB"    @@ 14 :> "INTFA"
         @@ 15 :> "INTFB"   @@ 16 :> "INTCAPA"  @@ 17 :> "INTCAPB"
         @@ 18 :> "GPIOA"   @@ 19 :> "GPIOB"    @@ 20 :> "OLATA"
         @@ 21 :> "OLATB")
    @@
    1 :> (  0 :> "IODIRA"   @@ 16 :> "IODIRB"   @@  1 :> "IPOLA"
         @@ 17 :> "IPOLB"   @@  2 :> "GPINTENA" @@ 18 :> "GPINTENB"
         @@ 3 :> "DEFVALA"  @@ 19 :> "DEFVALB"  @@  4 :> "INTCONA"
         @@ 20 :> "INTCONB" @@  5 :> "IOCON"    @@ 21 :> "IOCON"
         @@ 6 :> "GPPUA"    @@ 22 :> "GPPUB"    @@  7 :> "INTFA"
         @@ 23 :> "INTFB"   @@  8 :> "INTCAPA"  @@ 24 :> "INTCAPB"
         @@ 9 :> "GPIOA"    @@ 25 :> "GPIOB"    @@ 10 :> "OLATA"
         @@ 26 :> "OLATB")

\* ------------------------------------------------------------ bounds

\* Longest payload the event source lets a transaction collect.
MaxData == 3

\* Timestamps are opaque tokens to the analyzer (copied, never compared):
\* the event source stamps its Start and Stop events with one of MaxTime
\* values.
MaxTime == 2

Times == 0 .. (MaxTime - 1)

\* Chip addresses the event source puts on the bus: both ends of the
\* watched window, its two outer neighbours, and 0x30.
BusAddresses == {31, 32, 39, 40, 48}

\* Data bytes the event source puts on the bus: register offsets
\* 0x05 and 0x0a (IOCON in bank 1 and in bank 0), 0x84 (in neither table),
\* and the same three as register values (bit 7 clear, clear, set).
BusBytes == {5, 10, 132}

\* ------------------------------------------------------------ state

VARIABLES
    state,               \* self.state
    address,             \* self.address
    data,                \* self.data
    start_time,          \* self.start_time
    read,                \* self.read
    IOCON_BANK,          \* self.IOCON_BANK
    iocon_bank_setting,  \* self.iocon_bank_setting
    show_bits_setting,   \* self.show_bits_setting
    frame_type,          \* frame.type of the latest decode call
    i2c_frame,           \* what ll_fsm returned in the latest decode call
    iocon_bank,          \* decode's local iocon_bank in the latest call
    fields,              \* decode's local list data in the latest call
    result,              \* what the latest decode call returned or raised
    lastAddrOk,          \* history: latest Address event was acked, in window
    sinceIdle,           \* history: Data bytes received since leaving IDLE
    frame_start_time,    \* frame.start_time of the latest call, a start frame
    frame_read,          \* frame.data["read"] of the latest call, an address
    firstStartTime,      \* history: stamp of the Start that left IDLE
    readSeen,            \* history: some acked Address since IDLE was a read
    payloadDropped       \* history: bytes the latest event threw away

vars ==
    <<state, address, data, start_time, read, IOCON_BANK, iocon_bank_setting,
      show_bits_setting, frame_type, i2c_frame, iocon_bank, fields, result,
      lastAddrOk, sinceIdle, frame_start_time, frame_read, firstStartTime,
      readSeen, payloadDropped>>

Window == START_ADDRESS .. (START_ADDRESS + N_ADDRESSES - 1)

\* ------------------------------------------------------------ formatting

HEXDIGITS ==
    <<"0", "1", "2", "3", "4", "5", "6", "7", "8", "9", "a", "b", "c", "d",
      "e", "f">>

RECURSIVE Hex(_)
Hex(n) == IF n < 16 THEN HEXDIGITS[n + 1]
          ELSE Hex(n \div 16) \o HEXDIGITS[(n % 16) + 1]

\* f"{n:#04x}": "0x" and the hex digits, zero-padded to four characters.
Fmt04x(n) == IF n < 16 THEN "0x0" \o Hex(n) ELSE "0x" \o Hex(n)

\* str(bool)
PyStr(b) == IF b THEN "True" ELSE "False"

\* sep.join(strs), from the i-th string on
RECURSIVE JoinFrom(_, _, _)
JoinFrom(sep, strs, i) ==
    IF i > Len(strs) THEN ""
    ELSE IF i = Len(strs) THEN strs[i]
    ELSE strs[i] \o sep \o JoinFrom(sep, strs, i + 1)

\* sep.join(strs)
Join(sep, strs) == JoinFrom(sep, strs, 1)

\* MAP[bank].get(regaddr, f"{regaddr:#04x}?")
MapGet(bank, regaddr) ==
    IF regaddr \in DOMAIN MAP[bank] THEN MAP[bank][regaddr]
    ELSE Fmt04x(regaddr) \o "?"

\* ------------------------------------------------------------ reassembler

NoFrame == [kind |-> "None"]

reset ==
    [state |-> "IDLE", address |-> None, data |-> <<>>, start_time |-> None,
     read |-> FALSE]

self ==
    [state |-> state, address |-> address, data |-> data,
     start_time |-> start_time, read |-> read]

LLFrame(st, et, d, r, a) ==
    [kind |-> "LLFrame", start_time |-> st, end_time |-> et, data |-> d,
     read |-> r, address |-> a]

\* A branch of ll_fsm that ended in "return out".
Returned(s) == [returned |-> TRUE, self |-> s, out |-> NoFrame]

\* A branch of ll_fsm that fell through to the trailing self.reset().
FellThrough(s, out) == [returned |-> FALSE, self |-> s, out |-> out]

\* Variant of InWindow without the upper end of the window.
InWindow_NoUpperEnd(a) == START_ADDRESS <= a

\* START_ADDRESS <= self.address < START_ADDRESS + N_ADDRESSES
InWindow(a) == START_ADDRESS <= a /\ a < START_ADDRESS + N_ADDRESSES

\* if self.state == LLState.IDLE:
ll_idle(f) ==
    IF f.type = "start"
    THEN Returned([self EXCEPT !.state = "START",
                               !.start_time = f.start_time])
    ELSE FellThrough(self, NoFrame)

\* Variant of ll_start that returns, instead of falling through to the
\* reset, on an event that is no acknowledged Address.
ll_start_NoAbort(f) ==
    IF f.type = "address" /\ f.ack
    THEN LET s == [self EXCEPT !.read = read \/ f.read,
                               !.address = f.address]
         IN  IF InWindow(s.address)
             THEN Returned([s EXCEPT !.state = "DATA"])
             ELSE FellThrough(s, NoFrame)
    ELSE Returned(self)

\* Variant of ll_start that overwrites the direction flag.
ll_start_Overwriting(f) ==
    IF f.type = "address" /\ f.ack
    THEN LET s == [self EXCEPT !.read = f.read, !.address = f.address]
         IN  IF InWindow(s.address)
             THEN Returned([s EXCEPT !.state = "DATA"])
             ELSE FellThrough(s, NoFrame)
    ELSE FellThrough(self, NoFrame)

\* Variant of ll_start that takes a Start as the start of a new sequence.
ll_start_Restarting(f) ==
    IF f.type = "address" /\ f.ack
    THEN LET s == [self EXCEPT !.read = read \/ f.read,
                               !.address = f.address]
         IN  IF InWindow(s.address)
             THEN Returned([s EXCEPT !.state = "DATA"])
             ELSE FellThrough(s, NoFrame)
    ELSE IF f.type = "start"
    THEN Returned([self EXCEPT !.start_time = f.start_time])
    ELSE FellThrough(self, NoFrame)

\* elif self.state == LLState.START:
ll_start(f) ==
    IF f.type = "address" /\ f.ack
    THEN LET s == [self EXCEPT !.read = read \/ f.read,
                               !.address = f.address]
         IN  IF InWindow(s.address)
             THEN Returned([s EXCEPT !.state = "DATA"])
             ELSE FellThrough(s, NoFrame)
    ELSE FellThrough(self, NoFrame)

\* elif self.state == LLState.DATA: the Data event
ll_data_data(f) == Returned([self EXCEPT !.data = data \o <<f.data>>])

\* Variant of ll_data_start that empties the payload buffer.
ll_data_start_Clearing(f) ==
    Returned([self EXCEPT !.state = "START", !.data = <<>>])

\* Variant of ll_data_start that takes the repeated Start's time.
ll_data_start_Refreshing(f) ==
    Returned([self EXCEPT !.state = "START", !.start_time = f.start_time])

\* Variant of ll_data_start that hands out what was buffered so far.
ll_data_start_Emitting(f) ==
    [returned |-> TRUE, self |-> [self EXCEPT !.state = "START"],
     out |-> LLFrame(start_time, f.start_time, data, read, address)]

\* elif self.state == LLState.DATA: the (repeated) Start event
ll_data_start(f) == Returned([self EXCEPT !.state = "START"])

\* elif self.state == LLState.DATA: the Stop event
ll_data_stop(f) ==
    FellThrough([self EXCEPT !.state = "IDLE"],
                LLFrame(start_time, f.end_time, data, read, address))

\* Variant of ll_data that lets an Address event pass.
ll_data_IgnoringAddress(f) ==
    IF f.type = "data" THEN ll_data_data(f)
    ELSE IF f.type = "start" THEN ll_data_start(f)
    ELSE IF f.type = "stop" THEN ll_data_stop(f)
    ELSE Returned(self)

\* elif self.state == LLState.DATA:
ll_data(f) ==
    IF f.type = "data" THEN ll_data_data(f)
    ELSE IF f.type = "start" THEN ll_data_start(f)
    ELSE IF f.type = "stop" THEN ll_data_stop(f)
    ELSE FellThrough(self, NoFrame)

\* Variant of ll_fsm whose fall-through goes to IDLE without self.reset().
ll_fsm_NoReset(f) ==
    LET b == IF state = "IDLE" THEN ll_idle(f)
             ELSE IF state = "START" THEN ll_start(f)
             ELSE ll_data(f)
    IN  IF b.returned THEN [self |-> b.self, out |-> b.out]
        ELSE [self |-> [b.self EXCEPT !.state = "IDLE"], out |-> b.out]

\* ll_fsm(frame): the attributes it leaves in self, and what it returns.
ll_fsm(f) ==
    LET b == IF state = "IDLE" THEN ll_idle(f)
             ELSE IF state = "START" THEN ll_start(f)
             ELSE ll_data(f)
    IN  IF b.returned THEN [self |-> b.self, out |-> b.out]
        ELSE [self |-> reset, out |-> b.out]

\* ------------------------------------------------------------ decoder

\* f"{reg_name}={regval:#04x}"
RegField(reg_name, regval) == reg_name \o "=" \o Fmt04x(regval)

\* f"{key}={iocon_bit_test(regval, key)}" for key in IOCON_BITS
BitFields(regval) ==
    [k \in 1 .. Len(IOCON_KEYS) |->
        IOCON_KEYS[k] \o "=" \o PyStr(iocon_bit_test(regval, IOCON_KEYS[k]))]

\* Variant of StoreBank that stores the masked byte, not the truth value.
StoreBank_MaskedByte(banks, addr, regval) ==
    [banks EXCEPT ![addr] = IF iocon_bit_test(regval, "BANK") THEN 128 ELSE 0]

\* Variant of StoreBank that stores the bank bit for every chip address.
StoreBank_AllChips(banks, addr, regval) ==
    [a \in DOMAIN banks |-> IF iocon_bit_test(regval, "BANK") THEN 1 ELSE 0]

\* self.IOCON_BANK[i2c_frame.address] = iocon_bit_test(regval, "BANK");
\* the stored True/False is 1/0 as a key of MAP.
StoreBank(banks, addr, regval) ==
    [banks EXCEPT ![addr] = IF iocon_bit_test(regval, "BANK") THEN 1 ELSE 0]

\* Variant of UpdateBank that stores the bank bit of reads as well.
UpdateBank_AnyDirection(banks, addr, rd, regval) ==
    StoreBank(banks, addr, regval)

\* if not i2c_frame.read: ...
UpdateBank(banks, addr, rd, regval) ==
    IF ~rd THEN StoreBank(banks, addr, regval) ELSE banks

\* if self.show_bits_setting: ... else: ...
IoconFields(regval) ==
    IF show_bits_setting # 0 THEN BitFields(regval)
    ELSE <<RegField("IOCON", regval)>>

\* One pass of decode's for loop; acc holds the list data and the table
\* self.IOCON_BANK, bank is the local iocon_bank read before the loop.
decode_reg(regaddr, regval, bank, rd, addr, acc) ==
    LET reg_name == MapGet(bank, regaddr) IN
    IF reg_name = "IOCON"
    THEN [acc EXCEPT !.IOCON_BANK = UpdateBank(@, addr, rd, regval),
                     !.data = @ \o IoconFields(regval)]
    ELSE [acc EXCEPT !.data = Append(@, RegField(reg_name, regval))]

\* Variant of decode_loop that resolves every byte at start_reg.
RECURSIVE decode_loop_FixedOffset(_, _, _, _, _, _)
decode_loop_FixedOffset(vals, regaddr, bank, rd, addr, acc) ==
    IF vals = <<>> THEN acc
    ELSE decode_loop_FixedOffset(Tail(vals), regaddr, bank, rd, addr,
             decode_reg(regaddr, Head(vals), bank, rd, addr, acc))

\* for regaddr, regval in enumerate(i2c_frame.data[1:], start=start_reg)
RECURSIVE decode_loop(_, _, _, _, _, _)
decode_loop(vals, regaddr, bank, rd, addr, acc) ==
    IF vals = <<>> THEN acc
    ELSE decode_loop(Tail(vals), regaddr + 1, bank, rd, addr,
                     decode_reg(regaddr, Head(vals), bank, rd, addr, acc))

\* i2c_frame.data[0] of an empty bytearray raises IndexError.
IndexError == [kind |-> "IndexError"]

AnalyzerFrame(st, et, a, r, d) ==
    [kind |-> "AnalyzerFrame", type |-> "MCP23017", start_time |-> st,
     end_time |-> et, address |-> a,
     read |-> IF r THEN "read" ELSE "write", data |-> Join("; ", d)]

\* decode(frame): the whole handler of one bus event.
decode(f) ==
    LET r == ll_fsm(f) IN
    /\ state' = r.self.state
    /\ address' = r.self.address
    /\ data' = r.self.data
    /\ start_time' = r.self.start_time
    /\ read' = r.self.read
    /\ frame_type' = f.type
    /\ i2c_frame' = r.out
    /\ IF r.out.kind = "None"
       THEN /\ result' = NoFrame
            /\ iocon_bank' = None
            /\ fields' = <<>>
            /\ UNCHANGED IOCON_BANK
       ELSE IF r.out.data = <<>>
       THEN /\ result' = IndexError
            /\ iocon_bank' = None
            /\ fields' = <<>>
            /\ UNCHANGED IOCON_BANK
       ELSE LET start_reg == r.out.data[1]
                bank == IOCON_BANK[r.out.address]
                acc == decode_loop(Tail(r.out.data), start_reg, bank,
                                   r.out.read, r.out.address,
                                   [data |-> <<>>, IOCON_BANK |-> IOCON_BANK])
            IN  /\ iocon_bank' = bank
                /\ fields' = acc.data
                /\ IOCON_BANK' = acc.IOCON_BANK
                /\ result' = AnalyzerFrame(r.out.start_time, r.out.end_time,
                                           r.out.address, r.out.read, fields')
    /\ UNCHANGED <<iocon_bank_setting, show_bits_setting>>

\* ------------------------------------------------------------ event source

\* The parts of the frame f kept for later, and the history variables.
Observe(f) ==
    LET r == ll_fsm(f)
        dropped == r.self.state = "IDLE" /\ r.out.kind = "None"
        taken == state = "DATA" /\ f.type = "data"
    IN
    /\ lastAddrOk' = IF f.type = "address"
                     THEN f.ack /\ f.address \in Window
                     ELSE lastAddrOk
    /\ sinceIdle' = IF (f.type = "start" /\ state = "IDLE") \/ dropped
                    THEN <<>>
                    ELSE IF taken THEN Append(sinceIdle, f.data)
                    ELSE sinceIdle
    /\ frame_start_time' = IF f.type = "start" THEN f.start_time ELSE None
    /\ frame_read' = (f.type = "address" /\ f.read)
    /\ firstStartTime' = IF dropped THEN None
                         ELSE IF f.type = "start" /\ state = "IDLE"
                         THEN f.start_time
                         ELSE firstStartTime
    /\ readSeen' = IF (f.type = "start" /\ state = "IDLE") \/ dropped
                   THEN FALSE
                   ELSE IF f.type = "address" /\ f.ack
                   THEN readSeen \/ f.read
                   ELSE readSeen
    /\ payloadDropped' = IF dropped THEN Len(data) ELSE 0

\* The fields of a bus frame that ll_fsm and decode read.
StartFrame(t) == [type |-> "start", start_time |-> t]

StopFrame(t) == [type |-> "stop", end_time |-> t]

AddressFrame(a, rd, ack) ==
    [type |-> "address", address |-> a, read |-> rd, ack |-> ack]

DataFrame(b) == [type |-> "data", data |-> b]

Start == \E t \in Times : decode(StartFrame(t)) /\ Observe(StartFrame(t))

Address ==
    \E a \in BusAddresses, rd \in BOOLEAN, ack \in BOOLEAN :
        decode(AddressFrame(a, rd, ack)) /\ Observe(AddressFrame(a, rd, ack))

Data ==
    \E b \in BusBytes :
        /\ Len(data) < MaxData
        /\ decode(DataFrame(b)) /\ Observe(DataFrame(b))

Stop == \E t \in Times : decode(StopFrame(t)) /\ Observe(StopFrame(t))

\* __init__, for each choice of the two settings.
Init ==
    /\ iocon_bank_setting \in {0, 1}
    /\ show_bits_setting \in {0, 1}
    /\ IOCON_BANK = [addr \in Window |-> iocon_bank_setting]
    /\ state = reset.state
    /\ address = reset.address
    /\ data = reset.data
    /\ start_time = reset.start_time
    /\ read = reset.read
    /\ frame_type = "none"
    /\ i2c_frame = NoFrame
    /\ iocon_bank = None
    /\ fields = <<>>
    /\ result = NoFrame
    /\ lastAddrOk = FALSE
    /\ sinceIdle = <<>>
    /\ frame_start_time = None
    /\ frame_read = FALSE
    /\ firstStartTime = None
    /\ readSeen = FALSE
    /\ payloadDropped = 0

Next == Start \/ Address \/ Data \/ Stop

Spec == Init /\ [][Next]_vars

\* ------------------------------------------------------------ properties

Emitted == i2c_frame.kind = "LLFrame"

\* C1: every transaction ll_fsm emits has a chip address in the watched
\* window 0x20..0x27 and follows an Address event that was acknowledged and
\* in the window; no record is ever decoded for chip address 0x30.
C1_EmittedOnlyForWatchedChip ==
    /\ Emitted => (i2c_frame.address \in 32 .. 39 /\ lastAddrOk)
    /\ result.kind = "AnalyzerFrame" =>
           (result.address \in 32 .. 39 /\ result.address # 48)

\* A transaction for the last watched address, 0x27, was emitted.
C1_Witness ==
    Emitted /\ i2c_frame.address = 39 /\ result.kind = "AnalyzerFrame"

EmittedPayload == Emitted /\ i2c_frame.data # <<>>

Offset(i) == i2c_frame.data[1] + i - 1

Value(i) == i2c_frame.data[i + 1]

NValues == Len(i2c_frame.data) - 1

Bit(v, k) == (v \div (2 ^ k)) % 2 = 1

\* C3: a transaction completed with an empty payload is decoded into a
\* record with an empty field list; decode does not raise.
C3_EmptyPayloadGivesEmptyRecord ==
    (Emitted /\ i2c_frame.data = <<>>) =>
        (result.kind = "AnalyzerFrame" /\ fields = <<>> /\ result.data = "")

\* The field fld names offset off, by either table, with the value v.
Describes(fld, off, v) ==
    \E b \in {0, 1} : fld = RegField(MapGet(b, off), v)

\* C4, as claimed: in either verbose setting the payload [o, v1 .. vn] is
\* decoded into exactly n fields, the i-th describing offset o+i-1 with vi.
C4_OneFieldPerValue ==
    EmittedPayload =>
        /\ Len(fields) = NValues
        /\ \A i \in 1 .. NValues : Describes(fields[i], Offset(i), Value(i))

\* The i-th value is at an offset decode resolved to IOCON.
AtIocon(i) == MapGet(iocon_bank, Offset(i)) = "IOCON"

\* Where the fields of the i-th value begin: each earlier IOCON value took
\* seven fields in verbose mode, every other value one.
FieldPos(i) ==
    i + (IF show_bits_setting # 0
         THEN 6 * Cardinality({j \in 1 .. (i - 1) : AtIocon(j)})
         ELSE 0)

\* C4, amended: with verbose off the payload [o, v1 .. vn] is decoded into
\* exactly n fields, the i-th describing offset o+i-1 with vi; with verbose
\* on each value at an IOCON offset takes seven fields in place of one, so
\* n + 6k fields for k such values, still in offset order.
C4_FieldsFollowValues ==
    EmittedPayload =>
        /\ Len(fields) = FieldPos(NValues + 1) - 1
        /\ show_bits_setting = 0 => Len(fields) = NValues
        /\ \A i \in 1 .. NValues :
              IF show_bits_setting # 0 /\ AtIocon(i)
              THEN \A k \in 1 .. 7 :
                      \E b \in BOOLEAN :
                          fields[FieldPos(i) + k - 1]
                              = IOCON_KEYS[k] \o "=" \o PyStr(b)
              ELSE Describes(fields[FieldPos(i)], Offset(i), Value(i))

\* Verbose mode: a value at an IOCON offset was followed by another value.
C4_Witness ==
    /\ EmittedPayload /\ show_bits_setting = 1
    /\ NValues = 2 /\ AtIocon(1) /\ ~AtIocon(2)
    /\ Len(fields) = 8

\* The bank mode and the fields the documented decoder reaches for the
\* values vals written from offset off on: a bank change applies to the
\* offsets after it.
RECURSIVE DocBank(_, _, _, _)
DocBank(vals, off, bank, rd) ==
    IF vals = <<>> THEN bank
    ELSE DocBank(Tail(vals), off + 1,
                 IF MapGet(bank, off) = "IOCON" /\ ~rd
                 THEN (IF Bit(Head(vals), 7) THEN 1 ELSE 0)
                 ELSE bank,
                 rd)

RECURSIVE DocNames(_, _, _, _)
DocNames(vals, off, bank, rd) ==
    IF vals = <<>> THEN <<>>
    ELSE <<MapGet(bank, off)>>
         \o DocNames(Tail(vals), off + 1,
                     DocBank(<<Head(vals)>>, off, bank, rd), rd)

\* C5: after a write transaction the tracked bank mode of its chip is bit 7
\* of the last value the payload wrote to IOCON.
C5_BankIsLastIoconWrite ==
    (EmittedPayload /\ ~i2c_frame.read) =>
        IOCON_BANK[i2c_frame.address]
            = DocBank(Tail(i2c_frame.data), Offset(1), iocon_bank, FALSE)

\* C6: a read transaction leaves the whole bank-mode table as it was.
C6_ReadKeepsBankTable ==
    [][(Emitted' /\ i2c_frame'.read) => IOCON_BANK' = IOCON_BANK]_vars

\* A read returned IOCON = 0x84 from a chip tracked in bank 0.
C6_Witness ==
    /\ Emitted /\ i2c_frame.read /\ i2c_frame.data = <<10, 132>>
    /\ iocon_bank = 0 /\ IOCON_BANK[i2c_frame.address] = 0

\* C7: in a write payload, the offsets after an IOCON byte are resolved in
\* the table of the bank mode that byte set, the earlier ones in the old.
C7_BankChangeAppliesWithinPayload ==
    (EmittedPayload /\ show_bits_setting = 0) =>
        LET names == DocNames(Tail(i2c_frame.data), Offset(1), iocon_bank,
                              i2c_frame.read)
        IN  /\ Len(fields) = NValues
            /\ \A i \in 1 .. NValues :
                   fields[i] = RegField(names[i], Value(i))

\* The seven fields of the configuration byte v, bit by bit.
BitFieldsOf(v) ==
    <<"INTPOL=" \o PyStr(Bit(v, 1)), "ODR=" \o PyStr(Bit(v, 2)),
      "HAEN=" \o PyStr(Bit(v, 3)), "DISSLW=" \o PyStr(Bit(v, 4)),
      "SEQOP=" \o PyStr(Bit(v, 5)), "MIRROW=" \o PyStr(Bit(v, 6)),
      "BANK=" \o PyStr(Bit(v, 7))>>

\* The bus bytes as Python prints them with the format #04x.
HexOf(v) == CASE v = 5 -> "0x05" [] v = 10 -> "0x0a" [] v = 132 -> "0x84"

\* C8: a byte v at an offset resolved to IOCON is rendered, in verbose
\* mode, as exactly the seven fields INTPOL, ODR, HAEN, DISSLW, SEQOP,
\* MIRROW, BANK = True iff bit 1 .. 7 of v is set (none for bit 0), and with
\* verbose mode off as the single field IOCON=<v in hex>.
C8_IoconRendering ==
    EmittedPayload =>
        \A i \in 1 .. NValues :
            AtIocon(i) =>
                IF show_bits_setting # 0
                THEN /\ SubSeq(fields, FieldPos(i), FieldPos(i) + 6)
                            = BitFieldsOf(Value(i))
                     /\ FieldPos(i + 1) = FieldPos(i) + 7
                ELSE /\ fields[FieldPos(i)] = "IOCON=" \o HexOf(Value(i))
                     /\ FieldPos(i + 1) = FieldPos(i) + 1

\* Verbose mode: IOCON = 0x05 (bits 0 and 2) was decoded, ODR alone True.
C8_Witness ==
    /\ EmittedPayload /\ show_bits_setting = 1 /\ NValues = 1 /\ AtIocon(1)
    /\ Value(1) = 5
    /\ fields = <<"INTPOL=False", "ODR=True", "HAEN=False", "DISSLW=False",
                  "SEQOP=False", "MIRROW=False", "BANK=False">>

\* A verbose-mode write of the single value 0x84 to IOCON was decoded.
IoconWrite0x84 ==
    /\ EmittedPayload /\ show_bits_setting = 1 /\ ~i2c_frame.read
    /\ NValues = 1 /\ AtIocon(1) /\ Value(1) = 132

\* C9, as claimed: a verbose-mode write of IOCON=0x84 gives seven fields
\* with HAEN and BANK True and the five others False.
C9_0x84IsHaenAndBank ==
    IoconWrite0x84 =>
        fields = <<"INTPOL=False", "ODR=False", "HAEN=True", "DISSLW=False",
                   "SEQOP=False", "MIRROW=False", "BANK=True">>

\* C9, amended: a verbose-mode write of IOCON=0x84 gives seven fields with
\* ODR (bit 2) and BANK (bit 7) True and the five others, HAEN among them,
\* False.
C9_0x84IsOdrAndBank ==
    IoconWrite0x84 =>
        /\ fields = <<"INTPOL=False", "ODR=True", "HAEN=False",
                      "DISSLW=False", "SEQOP=False", "MIRROW=False",
                      "BANK=True">>
        /\ result.kind = "AnalyzerFrame"
        /\ result.read = "write"
        /\ result.data = "INTPOL=False; ODR=True; HAEN=False; DISSLW=False; "
                         \o "SEQOP=False; MIRROW=False; BANK=True"

\* The write of 0x84 went to offset 0x05 of a chip tracked in bank 1.
C9_Witness == IoconWrite0x84 /\ Offset(1) = 5 /\ iocon_bank = 1

\* C10: every event has an enabled transition in every reachable state
\* (a Data event as long as the payload is below the bound MaxData), the
\* state after a Stop event is IDLE whatever the state before, and so IDLE
\* recurs forever when Stop does.
C10_RecoversToIdle ==
    /\ [](ENABLED Start /\ ENABLED Address /\ ENABLED Stop)
    /\ [](Len(data) < MaxData => ENABLED Data)
    /\ [][frame_type' = "stop" => state' = "IDLE"]_vars
    /\ ([]<>(frame_type = "stop") => []<>(state = "IDLE"))

\* A Stop that closed no transaction, after an accepted Address phase and a
\* repeated Start, left the reassembler in IDLE.
C10_Witness ==
    /\ frame_type = "stop" /\ state = "IDLE" /\ ~Emitted /\ lastAddrOk

C12_BankTableFrame ==
    [][IOCON_BANK' # IOCON_BANK =>
          /\ EmittedPayload' /\ ~i2c_frame'.read
          /\ \E i \in 1 .. NValues' : AtIocon(i)'
          /\ \A a \in (32 .. 39) \ {i2c_frame'.address} :
                 IOCON_BANK'[a] = IOCON_BANK[a]]_vars

\* A write to 0x27 moved its entry away from the bank 0x27 had, with the
\* entry of 0x20 still the configured one.
C12_Witness ==
    /\ EmittedPayload /\ ~i2c_frame.read /\ i2c_frame.address = 39
    /\ IOCON_BANK[39] # iocon_bank
    /\ IOCON_BANK[32] = iocon_bank_setting

\* C14: the direction of the transaction in progress, of the emitted
\* transaction and of the decoded record is the OR of the read flags of
\* the acknowledged Address events since the reassembler left IDLE; a
\* transaction so labelled read leaves the bank mode of its chip alone.
C14_DirectionIsOrOfAddressPhases ==
    /\ state \in {"START", "DATA"} => read = readSeen
    /\ Emitted => i2c_frame.read = readSeen
    /\ result.kind = "AnalyzerFrame" =>
           result.read = (IF readSeen THEN "read" ELSE "write")
    /\ (EmittedPayload /\ readSeen) =>
           IOCON_BANK[i2c_frame.address] = iocon_bank

\* A write address phase was accepted after a read one: the flag stays read.
C14_Witness ==
    state = "DATA" /\ frame_type = "address" /\ ~frame_read /\ read

\* The position in fields of the i-th value when the names are those of
\* names: an IOCON byte takes seven fields when the bits are shown.
NamedPos(names, i) ==
    i + (IF show_bits_setting = 1
         THEN 6 * Cardinality({j \in 1 .. (i - 1) : names[j] = "IOCON"})
         ELSE 0)

\* C15: a value at an offset that the table of the chip's bank mode does
\* not resolve to IOCON gives the one field <NAME>=<value>, NAME being the
\* table's entry for the offset or, with no entry, the offset and "?".
C15_NonIoconRendering ==
    EmittedPayload =>
        LET names == DocNames(Tail(i2c_frame.data), Offset(1), iocon_bank,
                              i2c_frame.read)
        IN  \A i \in 1 .. NValues :
                names[i] # "IOCON" =>
                    /\ NamedPos(names, i) <= Len(fields)
                    /\ fields[NamedPos(names, i)]
                           = RegField(names[i], Value(i))

\* C16: the bank-mode table has one entry for each of 0x20 .. 0x27, each 0
\* or 1, and before the first event all are the configured initial mode.
C16_BankTableShape ==
    /\ DOMAIN IOCON_BANK = 32 .. 39
    /\ \A a \in 32 .. 39 : IOCON_BANK[a] \in {0, 1}
    /\ iocon_bank_setting \in {0, 1}
    /\ frame_type = "none" =>
           \A a \in 32 .. 39 : IOCON_BANK[a] = iocon_bank_setting

\* A write moved the entry of 0x20 away from the configured mode, that of
\* 0x27 still has it.
C16_Witness ==
    /\ IOCON_BANK[32] # iocon_bank_setting
    /\ IOCON_BANK[39] = iocon_bank_setting
    /\ frame_type = "stop"

\* C17: a transaction is emitted by a Stop received in DATA and by nothing
\* else, every such Stop emits one, and what is emitted went through a
\* Start and an acknowledged Address in the window.
C17_EmittedOnlyByStopInData ==
    /\ [][Emitted' <=> (frame_type' = "stop" /\ state = "DATA")]_vars
    /\ [](Emitted => (firstStartTime \in Times /\ lastAddrOk
                      /\ state = "IDLE"))

\* A Stop emitted a transaction of one byte.
C17_Witness ==
    Emitted /\ frame_type = "stop" /\ Len(i2c_frame.data) = 1

\* C18: in START an acknowledged Address in the window leads to DATA, and
\* every other event, a second Start included, leads to IDLE with nothing
\* emitted; in IDLE only a Start is taken, so after Start, Start the events
\* Address, Data, Stop emit nothing.
C18_StartAbortsUnlessAddress ==
    /\ [][state = "START" =>
             IF frame_type' = "address" /\ lastAddrOk'
             THEN state' = "DATA" /\ ~Emitted'
             ELSE state' = "IDLE" /\ ~Emitted' /\ data' = <<>>]_vars
    /\ [][(state = "IDLE" /\ frame_type' # "start") =>
             (state' = "IDLE" /\ ~Emitted')]_vars

\* A Start arrived in START and left the reassembler in IDLE.
C18_Witness ==
    frame_type = "start" /\ state = "IDLE" /\ frame_start_time \in Times

\* C19: an Address received in DATA leads to IDLE with nothing emitted and
\* the buffered payload dropped, and the Data and Stop events that follow
\* in IDLE emit nothing.
C19_AddressInDataAborts ==
    /\ [][(state = "DATA" /\ frame_type' = "address") =>
             /\ state' = "IDLE" /\ ~Emitted'
             /\ data' = <<>> /\ payloadDropped' = Len(data)]_vars
    /\ [][(state = "IDLE" /\ frame_type' \in {"data", "stop"}) =>
             (state' = "IDLE" /\ ~Emitted' /\ data' = <<>>)]_vars

\* An Address arrived with two bytes buffered, which were dropped.
C19_Witness ==
    frame_type = "address" /\ state = "IDLE" /\ payloadDropped = 2

\* C20: in IDLE the payload is empty, the direction flag false and the
\* chip address and start time unset, and a transaction in progress holds
\* only bytes and direction of the events since IDLE was left.
C20_IdleIsClean ==
    /\ state = "IDLE" =>
           (data = <<>> /\ ~read /\ address = None /\ start_time = None)
    /\ state \in {"START", "DATA"} =>
           (data = sinceIdle /\ (read => readSeen))

\* A read transaction of three bytes was emitted and nothing of it is left.
C20_Witness ==
    /\ state = "IDLE" /\ Emitted /\ i2c_frame.read
    /\ Len(i2c_frame.data) = 3 /\ data = <<>> /\ ~read /\ address = None

====
